---- MODULE Spec2Model ----
(***************************************************************************)
(* Model of the value-marshalling and type-integration layer of y-py:      *)
(* src/src/type_conversions.rs (value codec, PyObjectWrapper/PyValueWrapper *)
(* integration, insert_at) and src/src/y_array.rs (YArray).                *)
(*                                                                         *)
(* Host values (PyObject) are tagged tuples:                               *)
(*   <<"str", s>>  <<"int", e, k>>  <<"none">>  <<"float", e, k, h>>       *)
(*   <<"bool", b>> <<"bytes", id>>  <<"list", seq>>  <<"dict", f>>         *)
(*   <<"handle", h>>   a host-constructed shared container object          *)
(*   <<"treeref", b>>  a shared container object made by reading branch b  *)
(*   <<"other">>       any other host object (a tuple, a set, ...)         *)
(* An integer numeral <<e, k>> stands for e * 2^53 + k and a float numeral *)
(* <<e, k, h>> for e * 2^53 + k + h/2, so that the 53-bit mantissa of an   *)
(* f64 is modelled without leaving TLC's integers.                         *)
(* lib0 Any values are tagged tuples named after the variants of Any.      *)
(***************************************************************************)
EXTENDS Integers, Sequences, FiniteSets, TLC

VARIABLES handles, tree, last, calls, cin, cpc, cany, cback, it

vars == <<handles, tree, last, calls, cin, cpc, cany, cback, it>>

(***************************************************************************)
(* Bounds of the model.                                                    *)
(***************************************************************************)
\* longest host list enumerated as a codec input
MaxListLen == 2

Keys == {"x", "y"}

Absent == <<"absent">>

None == <<"None">>

Some(x) == <<"Some", x>>

IsSome(o) == o[1] = "Some"

Unwrap(o) == o[2]

(***************************************************************************)
(* Value codec: py_into_any and Any::into_py.                              *)
(***************************************************************************)
\* PyLong -> f64 (l.extract::<f64>()): exact below 2^53, above it rounded to
\* the nearest representable double (a multiple of 2, ties to even mantissa).
PyLongAsF64(v) ==
    IF v[1] = "bool" THEN <<0, IF v[2] THEN 1 ELSE 0, 0>>
    ELSE IF v[2] = 0 THEN <<0, v[3], 0>>
    ELSE IF v[3] % 2 = 0 THEN <<v[2], v[3], 0>>
    ELSE IF (v[3] + 1) % 4 = 0 THEN <<v[2], v[3] + 1, 0>>
    ELSE <<v[2], v[3] - 1, 0>>

\* f64 -> i64 (i as i64): truncation toward zero.
F64AsI64(f) ==
    IF f[3] = 1 /\ f[1] = 0 /\ f[2] < 0 THEN <<f[1], f[2] + 1>> ELSE <<f[1], f[2]>>

\* downcast::<PyString>()
IsPyString(v) == v[1] = "str"

\* downcast::<PyLong>(): PyLong_Check accepts every subclass of int, bool included
IsPyLong(v) == v[1] \in {"int", "bool"}

IsPyNone(v) == v[1] = "none"

IsPyFloat(v) == v[1] = "float"

IsPyBool(v) == v[1] = "bool"

IsPyList(v) == v[1] = "list"

IsPyDict(v) == v[1] = "dict"

\* Shared::extract succeeds on the shared container classes only
IsShared(v) == v[1] \in {"handle", "treeref"}

RECURSIVE py_into_any(_)
RECURSIVE EncodeList(_, _, _)
RECURSIVE EncodeDict(_, _, _)
RECURSIVE EncodeList_skips(_, _, _)

\* a variant of EncodeList that drops an element it cannot encode
EncodeList_skips(list, i, result) ==
    IF i > Len(list) THEN Some(<<"Array", result>>)
    ELSE LET r == py_into_any(list[i])
         IN  IF IsSome(r) THEN EncodeList_skips(list, i + 1, Append(result, Unwrap(r)))
             ELSE EncodeList_skips(list, i + 1, result)

\* for value in list.iter() { result.push(py_into_any(value)?) }
EncodeList(list, i, result) ==
    IF i > Len(list) THEN Some(<<"Array", result>>)
    ELSE LET r == py_into_any(list[i])
         IN  IF IsSome(r) THEN EncodeList(list, i + 1, Append(result, Unwrap(r)))
             ELSE None

\* for (k, v) in dict.iter() { result.insert(key, py_into_any(v)?) }
EncodeDict(dict, todo, result) ==
    IF todo = {} THEN Some(<<"Map", result>>)
    ELSE LET k == CHOOSE x \in todo : TRUE
         IN  IF dict[k] = Absent THEN EncodeDict(dict, todo \ {k}, result)
             ELSE LET r == py_into_any(dict[k])
                  IN  IF IsSome(r)
                      THEN EncodeDict(dict, todo \ {k}, [result EXCEPT ![k] = Unwrap(r)])
                      ELSE None

py_into_any(v) ==
    IF IsPyString(v) THEN Some(<<"String", v[2]>>)
    ELSE IF IsPyLong(v)
         THEN LET i == F64AsI64(PyLongAsF64(v)) IN Some(<<"BigInt", i[1], i[2]>>)
    ELSE IF IsPyNone(v) THEN Some(<<"Null">>)
    ELSE IF IsPyFloat(v) THEN Some(<<"Number", v[2], v[3], v[4]>>)
    ELSE IF IsPyBool(v) THEN Some(<<"Bool", v[2]>>)
    ELSE IF IsPyList(v) THEN EncodeList(v[2], 1, <<>>)
    ELSE IF IsPyDict(v)
         THEN IF IsShared(v) THEN None
              ELSE EncodeDict(v[2], Keys, [k \in Keys |-> Absent])
    ELSE None

RECURSIVE Any_into_py(_)
RECURSIVE DecodeVec(_, _, _)

\* impl ToPython for Vec<T>: self.into_iter().map(|v| v.into_py(py))
DecodeVec(vec, i, result) ==
    IF i > Len(vec) THEN result
    ELSE DecodeVec(vec, i + 1, Append(result, Any_into_py(vec[i])))

\* impl ToPython for Any (and for HashMap<K, V>)
Any_into_py(a) ==
    CASE a[1] \in {"Null", "Undefined"} -> <<"none">>
      [] a[1] = "Bool" -> <<"bool", a[2]>>
      [] a[1] = "Number" -> <<"float", a[2], a[3], a[4]>>
      [] a[1] = "BigInt" -> <<"int", a[2], a[3]>>
      [] a[1] = "String" -> <<"str", a[2]>>
      [] a[1] = "Buffer" -> <<"bytes", a[2]>>
      [] a[1] = "Array" -> <<"list", DecodeVec(a[2], 1, <<>>)>>
      [] a[1] = "Map" ->
            <<"dict", [k \in Keys |-> IF a[2][k] = Absent THEN Absent
                                      ELSE Any_into_py(a[2][k])]>>

(***************************************************************************)
(* Inputs of the codec specification: host values up to two levels of      *)
(* nesting.                                                                *)
(***************************************************************************)
\* 2^53 + 1, 2^53 + 2 and 2^53 + 3 are the integers <<1, 1>>, <<1, 2>> and
\* <<1, 3>>
HostAtoms ==
    { <<"str", "a">>, <<"int", 0, 1>>, <<"int", 0, -1>>, <<"int", 1, 1>>,
      <<"int", 1, 2>>, <<"int", 1, 3>>,
      <<"none">>, <<"float", 0, 1, 1>>, <<"bool", TRUE>>, <<"bool", FALSE>>,
      <<"bytes", 1>>, <<"handle", 1>>, <<"other">> }

SeqsUpTo(S, n) == UNION { [1..m -> S] : m \in 0..n }

HostLists(S) == { <<"list", s>> : s \in SeqsUpTo(S, MaxListLen) }

HostDicts(S) == { <<"dict", f>> : f \in [Keys -> S \cup {Absent}] }

\* elements enumerated inside a nested composite
NestElems ==
    { <<"str", "a">>, <<"bool", TRUE>>, <<"handle", 1>>,
      <<"list", <<>>>>, <<"list", << <<"int", 0, 1>> >>>>,
      <<"list", << <<"handle", 1>> >>>>, <<"list", << <<"other">> >>>>,
      <<"dict", [k \in Keys |-> IF k = "x" THEN <<"str", "a">> ELSE Absent]>>,
      <<"dict", [k \in Keys |-> IF k = "x" THEN <<"handle", 1>> ELSE Absent]>> }

HostValues ==
    HostAtoms \cup HostLists(HostAtoms) \cup HostDicts(HostAtoms)
        \cup HostLists(NestElems) \cup HostDicts(NestElems)

(***************************************************************************)
(* Shared containers.                                                      *)
(*   handles[h]  the host object h: st is "none" (not constructed yet),    *)
(*               "prelim" (SharedType::Prelim(buf / ents)) or "integrated" *)
(*               (SharedType::Integrated(ref)); handle 0 is the root array *)
(*               of the document (doc.get_array), integrated from the      *)
(*               start                                                     *)
(*   tree[b]     branch b of the document: the items of a sequence or the  *)
(*               entries of a map; an element is an Any or the Value       *)
(*               <<"YArray", b>> / <<"YMap", b>> of a nested branch        *)
(* A machine record M = [hs, tr, ops, err, ord] is threaded through the    *)
(* operators of one host call: the handles, the tree, the tree ops issued  *)
(* so far, the panic that is unwinding (or "ok"), and the iteration order  *)
(* of each preliminary map's HashMap.                                      *)
(***************************************************************************)
\* host-constructed handles besides the root
NumHandles == 2

\* longest sequence a container may grow to
MaxLen == 6

\* longest batch of items given to one call
MaxBatch == 2

\* number of branches of the document
MaxBranches == 4

\* number of mutating host calls in one behaviour
MaxCalls == 3

Handles == 0..NumHandles

HostHandles == 1..NumHandles

Root == 0

RootBranch == 1

NoEnts == [k \in Keys |-> Absent]

KeyOrders == { s \in [1..Cardinality(Keys) -> Keys] : \A i, j \in DOMAIN s : i # j => s[i] # s[j] }

InsertSeq(s, i, t) == SubSeq(s, 1, i) \o t \o SubSeq(s, i + 1, Len(s))

RemoveSeq(s, i, n) == SubSeq(s, 1, i) \o SubSeq(s, i + n + 1, Len(s))

\* a u32 is written as the i32 of the same bit pattern: -1 is 2^32 - 1
U32Add(a, b) == a + b

U32Leq(a, b) == IF (a < 0) = (b < 0) THEN a <= b ELSE b < 0

Panicked(M) == M.err # "ok"

Panic(M, e) == [M EXCEPT !.err = e]

\* Shared::is_prelim: an object read from the tree is SharedType::Integrated
is_prelim(M, v) == v[1] = "handle" /\ M.hs[v[2]].st = "prelim"

\* Shared::type_ref
type_ref(M, v) == IF v[1] = "handle" THEN M.hs[v[2]].kind ELSE M.tr[v[2]].kind

(***************************************************************************)
(* The document engine (yrs), as the interface of spec section 6.          *)
(***************************************************************************)
\* Array::len
Array_len(M, b) == Len(M.tr[b].items)

\* Array::insert_range(txn, index, anys): one range-insert op
Array_insert_range(M, b, index, anys) ==
    IF ~U32Leq(index, Array_len(M, b)) THEN Panic(M, "Panic")
    ELSE [M EXCEPT !.tr[b].items = InsertSeq(@, index, anys),
                   !.ops = Append(@, <<"range", b, index, Len(anys)>>)]

\* Array::remove_range(txn, index, len)
Array_remove_range(M, b, index, len) ==
    IF ~U32Leq(index, Array_len(M, b)) \/ ~U32Leq(len, Array_len(M, b) - index)
    THEN Panic(M, "Panic")
    ELSE [M EXCEPT !.tr[b].items = RemoveSeq(@, index, len),
                   !.ops = Append(@, <<"remove", b, index, len>>)]

\* Array::get(txn, index)
Array_get(M, b, index) ==
    IF index >= 0 /\ index < Array_len(M, b) THEN Some(M.tr[b].items[index + 1]) ELSE None

\* Branch::new(ptr, type_ref, None), the item that holds it written at `at`
\* (an index of a sequence or a key of a map): one container-attach op
NewBranch(M, b, at, kind, v) ==
    LET nb == Len(M.tr) + 1
        val == <<IF kind = "array" THEN "YArray" ELSE "YMap", nb>>
        tr1 == Append(M.tr, [kind |-> kind, items |-> <<>>, ents |-> NoEnts,
                             owner |-> v])
    IN  [M EXCEPT !.tr = IF M.tr[b].kind = "array"
                         THEN [tr1 EXCEPT ![b].items = InsertSeq(@, at, <<val>>)]
                         ELSE [tr1 EXCEPT ![b].ents[at] = val],
                  !.ops = Append(@, <<"attach", b, at, 1>>)]

\* an item with ItemContent::Any(vec![any]) written at `at`
NewAnyItem(M, b, at, any) ==
    [M EXCEPT !.tr = IF M.tr[b].kind = "array"
                     THEN [@ EXCEPT ![b].items = InsertSeq(@, at, <<any>>)]
                     ELSE [@ EXCEPT ![b].ents[at] = any],
              !.ops = Append(@, <<"any", b, at, 1>>)]

(***************************************************************************)
(* impl Prelim for PyObjectWrapper / PyValueWrapper, and insert_at.        *)
(***************************************************************************)
\* a variant that takes every shared container, integrated or not
PyObjectWrapper_into_content_any_shared(M, v) ==
    LET any == py_into_any(v)
    IN  IF IsSome(any) THEN <<"Any", Unwrap(any)>>
        ELSE IF IsShared(v) THEN <<"Type", type_ref(M, v)>>
        ELSE <<"Panic">>

\* a variant that stores a value it does not recognize as Null
PyObjectWrapper_into_content_lenient(M, v) ==
    LET any == py_into_any(v)
    IN  IF IsSome(any) THEN <<"Any", Unwrap(any)>>
        ELSE IF IsShared(v)
             THEN IF is_prelim(M, v) THEN <<"Type", type_ref(M, v)>>
                  ELSE <<"Panic">>
        ELSE <<"Any", <<"Null">>>>

\* a variant that takes every shared container as an entry value
PyValueWrapper_into_content_any_shared(M, v) ==
    LET any == py_into_any(v)
    IN  IF IsSome(any) THEN <<"Any", Unwrap(any)>>
        ELSE IF IsShared(v) THEN <<"Type", type_ref(M, v)>>
        ELSE <<"Panic">>

\* the content of the new item: <<"Any", any>>, <<"Type", kind>>, or the
\* panic "Cannot integrate this type"
PyObjectWrapper_into_content(M, v) ==
    LET any == py_into_any(v)
    IN  IF IsSome(any) THEN <<"Any", Unwrap(any)>>
        ELSE IF IsShared(v)
             THEN IF is_prelim(M, v) THEN <<"Type", type_ref(M, v)>>
                  ELSE <<"Panic">>
        ELSE <<"Panic">>

PyValueWrapper_into_content(M, v) ==
    LET any == py_into_any(v)
    IN  IF IsSome(any) THEN <<"Any", Unwrap(any)>>
        ELSE IF IsShared(v)
             THEN IF is_prelim(M, v) THEN <<"Type", type_ref(M, v)>>
                  ELSE <<"Panic">>
        ELSE <<"Panic">>

\* y_array.0 = SharedType::Integrated(array.clone())
SetIntegrated(M, h, inner) ==
    [M EXCEPT !.hs[h] = [st |-> "integrated", kind |-> @.kind, buf |-> <<>>,
                         ents |-> NoEnts, ref |-> inner]]

\* a variant that advances the cursor by one position after a run
RunCursor_one(j, anys) == j + 1

\* let len = anys.len() as u32; ...; j += len
RunCursor(j, anys) == j + Len(anys)

\* a variant that leaves the cursor in place after a container
AttachCursor_stays(j) == j

\* dst.insert(txn, j, wrapper); i += 1; j += 1
AttachCursor(j) == j + 1

\* a variant of the inner loop that stops after one value
TakeAnys_one(src, i, anys) ==
    IF i > Len(src) THEN anys
    ELSE LET any == py_into_any(src[i])
         IN  IF IsSome(any) THEN Append(anys, Unwrap(any)) ELSE anys

RECURSIVE TakeAnys(_, _, _)

\* the inner loop of insert_at: the encoded maximal run of plain values from i
TakeAnys(src, i, anys) ==
    IF i > Len(src) THEN anys
    ELSE LET any == py_into_any(src[i])
         IN  IF IsSome(any) THEN TakeAnys(src, i + 1, Append(anys, Unwrap(any)))
             ELSE anys

RECURSIVE InsertAtLoop(_, _, _, _, _)
RECURSIVE Array_insert(_, _, _, _)
RECURSIVE Map_insert(_, _, _, _)
RECURSIVE PyObjectWrapper_integrate(_, _, _)
RECURSIVE PyValueWrapper_integrate(_, _, _)
RECURSIVE ReplayEntries(_, _, _, _, _)

\* the outer loop of insert_at, src indexed from 1; a panic unwinds it
InsertAtLoop(M, dst, j, src, i) ==
    IF Panicked(M) \/ i > Len(src) THEN M
    ELSE LET anys == TakeAnys(src, i, <<>>)
         IN  IF anys # <<>>
             THEN InsertAtLoop(Array_insert_range(M, dst, j, anys), dst,
                               RunCursor(j, anys), src, i + Len(anys))
             ELSE InsertAtLoop(Array_insert(M, dst, j, src[i]), dst,
                               AttachCursor(j), src, i + 1)

insert_at(M, dst, index, src) == InsertAtLoop(M, dst, index, src, 1)

\* Array::insert(txn, index, PyObjectWrapper(v)): the engine asks the value for
\* its content, writes the item, and hands the new branch to integrate
Array_insert(M, b, index, v) ==
    IF ~U32Leq(index, Array_len(M, b)) THEN Panic(M, "Panic")
    ELSE LET c == PyObjectWrapper_into_content(M, v)
         IN  CASE c[1] = "Panic" -> Panic(M, "CannotIntegrate")
               [] c[1] = "Any" -> NewAnyItem(M, b, index, c[2])
               [] c[1] = "Type" ->
                    PyObjectWrapper_integrate(NewBranch(M, b, index, c[2], v), v,
                                              Len(M.tr) + 1)

\* Map::insert(txn, key, PyValueWrapper(v))
Map_insert(M, b, key, v) ==
    LET c == PyValueWrapper_into_content(M, v)
    IN  CASE c[1] = "Panic" -> Panic(M, "CannotIntegrate")
          [] c[1] = "Any" -> NewAnyItem(M, b, key, c[2])
          [] c[1] = "Type" ->
               PyValueWrapper_integrate(NewBranch(M, b, key, c[2], v), v,
                                        Len(M.tr) + 1)

\* for (k, v) in entries { map.insert(txn, k, PyValueWrapper(v)) }
ReplayEntries(M, b, ents, order, i) ==
    IF Panicked(M) \/ i > Len(order) THEN M
    ELSE IF ents[order[i]] = Absent THEN ReplayEntries(M, b, ents, order, i + 1)
    ELSE ReplayEntries(Map_insert(M, b, order[i], ents[order[i]]), b, ents, order,
                       i + 1)

\* a variant that marks the handle without replaying what it holds
PyObjectWrapper_integrate_shallow(M, v, inner) ==
    IF IsShared(v) /\ is_prelim(M, v) THEN SetIntegrated(M, v[2], inner) ELSE M

PyObjectWrapper_integrate(M, v, inner) ==
    IF IsShared(v) /\ is_prelim(M, v)
    THEN LET h == v[2]
             M1 == IF M.hs[h].kind = "array"
                   THEN insert_at(M, inner, Array_len(M, inner), M.hs[h].buf)
                   ELSE ReplayEntries(M, inner, M.hs[h].ents, M.ord[h], 1)
         IN  IF Panicked(M1) THEN M1 ELSE SetIntegrated(M1, h, inner)
    ELSE M

PyValueWrapper_integrate(M, v, inner) ==
    IF IsShared(v) /\ is_prelim(M, v)
    THEN LET h == v[2]
             M1 == IF M.hs[h].kind = "array"
                   THEN insert_at(M, inner, Array_len(M, inner), M.hs[h].buf)
                   ELSE ReplayEntries(M, inner, M.hs[h].ents, M.ord[h], 1)
         IN  IF Panicked(M1) THEN M1 ELSE SetIntegrated(M1, h, inner)
    ELSE M

(***************************************************************************)
(* YArray (src/src/y_array.rs) as operators on a machine record.           *)
(***************************************************************************)
IsIntegrated(hs, h) == hs[h].st = "integrated"

IsPrelim(hs, h) == hs[h].st = "prelim"

\* YArray::prelim
YArray_prelim(hs, h) == IF hs[h].st = "prelim" THEN TRUE ELSE FALSE

\* YArray::length
YArray_length(hs, tr, h) ==
    IF IsIntegrated(hs, h) THEN Len(tr[hs[h].ref].items) ELSE Len(hs[h].buf)

\* impl ToPython for Value: a nested branch is wrapped in a new integrated object
Value_into_py(val) ==
    IF val[1] \in {"YArray", "YMap"} THEN <<"treeref", val[2]>> ELSE Any_into_py(val)

RECURSIVE VecInsertAll_in_place(_, _, _, _, _)

\* a variant that inserts every element at the same index
VecInsertAll_in_place(M, h, j, items, i) ==
    IF Panicked(M) \/ i > Len(items) THEN M
    ELSE IF ~U32Leq(j, Len(M.hs[h].buf)) THEN Panic(M, "Panic")
    ELSE VecInsertAll_in_place([M EXCEPT !.hs[h].buf = InsertSeq(@, j, <<items[i]>>)],
                               h, j, items, i + 1)

RECURSIVE VecInsertAll(_, _, _, _, _)

\* for el in items { vec.insert(j as usize, el); j += 1 }: Vec::insert panics
\* when the index is beyond the length
VecInsertAll(M, h, j, items, i) ==
    IF Panicked(M) \/ i > Len(items) THEN M
    ELSE IF ~U32Leq(j, Len(M.hs[h].buf)) THEN Panic(M, "Panic")
    ELSE VecInsertAll([M EXCEPT !.hs[h].buf = InsertSeq(@, j, <<items[i]>>)],
                      h, j + 1, items, i + 1)

\* YArray::insert
YArray_insert(M, h, index, items) ==
    IF IsIntegrated(M.hs, h) THEN insert_at(M, M.hs[h].ref, index, items)
    ELSE VecInsertAll(M, h, index, items, 1)

\* YArray::push
YArray_push(M, h, items) == YArray_insert(M, h, YArray_length(M.hs, M.tr, h), items)

\* a variant that clamps the range to the buffer
VecDrain_clamps(M, h, start, end) ==
    LET len == Len(M.hs[h].buf)
        e == IF U32Leq(end, len) THEN end ELSE len
        b == IF U32Leq(start, e) THEN start ELSE e
    IN  [M EXCEPT !.hs[h].buf = RemoveSeq(@, b, e - b)]

\* a variant that drains one element more
VecDrain_one_more(M, h, start, end) ==
    IF ~U32Leq(start, end) \/ ~U32Leq(end, Len(M.hs[h].buf)) THEN Panic(M, "Panic")
    ELSE [M EXCEPT !.hs[h].buf = RemoveSeq(@, start, end - start + 1)]

\* v.drain((index as usize)..(index + length) as usize): Vec::drain panics, before
\* it removes anything, when the range is reversed or ends beyond the length
VecDrain(M, h, start, end) ==
    IF ~U32Leq(start, end) \/ ~U32Leq(end, Len(M.hs[h].buf)) THEN Panic(M, "Panic")
    ELSE [M EXCEPT !.hs[h].buf = RemoveSeq(@, start, end - start)]

\* YArray::delete
YArray_delete(M, h, index, length) ==
    IF IsIntegrated(M.hs, h) THEN Array_remove_range(M, M.hs[h].ref, index, length)
    ELSE VecDrain(M, h, index, U32Add(index, length))

\* YArray::get: Ok(value) or Err(PyIndexError)
YArray_get(hs, tr, h, index) ==
    IF IsIntegrated(hs, h)
    THEN LET value == Array_get([tr |-> tr], hs[h].ref, index)
         IN  IF IsSome(value) THEN Some(Value_into_py(Unwrap(value))) ELSE None
    ELSE IF index >= 0 /\ index < Len(hs[h].buf) THEN Some(hs[h].buf[index + 1])
    ELSE None

(***************************************************************************)
(* YMap: its constructor and set, as spec sections 3 and 6 describe them   *)
(* (a preliminary map buffers the entry, an integrated one inserts it      *)
(* through PyValueWrapper).                                                *)
(***************************************************************************)
YMap_set(M, h, key, value) ==
    IF IsIntegrated(M.hs, h) THEN Map_insert(M, M.hs[h].ref, key, value)
    ELSE [M EXCEPT !.hs[h].ents[key] = value]

\* the entries of a map as the host reads them
YMap_entries(hs, tr, h) ==
    IF IsIntegrated(hs, h)
    THEN [k \in Keys |-> IF tr[hs[h].ref].ents[k] = Absent THEN Absent
                         ELSE Value_into_py(tr[hs[h].ref].ents[k])]
    ELSE hs[h].ents

(***************************************************************************)
(* Inputs of the host calls.                                               *)
(***************************************************************************)
PlainItems == { <<"str", "a">>, <<"int", 0, 1>> }

\* the shared container objects the host constructed
HandleItems == { <<"handle", h>> : h \in { x \in HostHandles : handles[x].st # "none" } }

\* the shared container objects the host can have read from the tree: get on a
\* nested branch returns a new integrated object
ReadItems == { <<"treeref", b>> : b \in (DOMAIN tree) \ {RootBranch} }

Items == PlainItems \cup HandleItems

\* batches with a value that is neither plain nor a preliminary container: an
\* unrecognized host object, a list that holds a handle, the root handle
OddBatches ==
    { << <<"other">> >>, << <<"str", "a">>, <<"other">> >>,
      << <<"other">>, <<"str", "a">> >>,
      << <<"list", << <<"handle", Root>> >>>> >>,
      << <<"handle", Root>> >>, << <<"str", "a">>, <<"handle", Root>> >> }
        \cup { <<r>> : r \in ReadItems }
        \cup { << h, <<"str", "a">>, <<"handle", Root>> >> : h \in HandleItems }
        \cup { << <<"str", "a">>, h, <<"handle", Root>> >> : h \in HandleItems }

\* longer batches: the scenarios of spec section 8 and alternating patterns
LongBatches ==
    { << <<"str", "a">>, <<"int", 0, 1>>, <<"handle", 1>>, <<"str", "b">> >>,
      << <<"int", 0, 10>>, <<"int", 0, 20>>, <<"int", 0, 30>>, <<"int", 0, 40>> >>,
      << <<"handle", 1>>, <<"str", "a">>, <<"handle", 2>> >>,
      << <<"str", "a">>, <<"handle", 1>>, <<"int", 0, 1>>, <<"handle", 2>> >> }

\* batches with a boolean, and with the integer 2^53 + 1
CodecBatches ==
    { << <<"bool", TRUE>> >>, << <<"int", 1, 1>> >>,
      << <<"str", "a">>, <<"bool", FALSE>> >> }

Batches ==
    SeqsUpTo(Items, MaxBatch) \cup OddBatches \cup CodecBatches
        \cup { s \in LongBatches :
                 \A i \in DOMAIN s : s[i][1] = "handle" => s[i] \in HandleItems }

\* initial buffers of YArray.new
Inits ==
    SeqsUpTo(Items, 1)
        \cup { << <<"bool", TRUE>>, <<"bool", FALSE>> >>, << <<"int", 1, 1>> >>,
               << <<"int", 0, 10>>, <<"int", 0, 20>>, <<"int", 0, 30>>, <<"int", 0, 40>> >>,
               << <<"handle", Root>> >>, << <<"str", "a">>, <<"handle", Root>> >> }

\* initial entries of YMap.new
MapInits ==
    { f \in [Keys -> Items \cup {Absent, <<"handle", Root>>}] :
        f["y"] \in {Absent, <<"int", 0, 1>>, <<"handle", Root>>} }

\* values given to YMap.set
SetValues == Items \cup {<<"other">>, <<"handle", Root>>} \cup ReadItems

\* the preliminary handles stored directly in the buffer of h
PrelimRefs(hs, h) ==
    IF hs[h].st # "prelim" THEN {}
    ELSE { x \in HostHandles : hs[x].st = "prelim"
               /\ \/ \E i \in DOMAIN hs[h].buf : hs[h].buf[i] = <<"handle", x>>
                  \/ \E k \in Keys : hs[h].ents[k] = <<"handle", x>> }

RECURSIVE Reaches(_, _, _)

Reaches(hs, a, b) == a = b \/ \E c \in PrelimRefs(hs, a) : Reaches(hs, c, b)

\* storing items in the buffer of h keeps the preliminary buffers acyclic
Acyclic(hs, h, items) ==
    \A i \in DOMAIN items :
        (items[i][1] = "handle" /\ hs[items[i][2]].st = "prelim")
            => ~Reaches(hs, items[i][2], h)

(***************************************************************************)
(* The host calls as actions.                                              *)
(***************************************************************************)
Machine(ord) == [hs |-> handles, tr |-> tree, ops |-> <<>>, err |-> "ok", ord |-> ord]

Pre == [hs |-> handles, tr |-> tree]

NoCall == [op |-> "init", h |-> 0, index |-> 0, n |-> 0, key |-> "x", items |-> <<>>,
           err |-> "ok", ops |-> <<>>, ret |-> None, pre |-> Pre]

\* a mutating call fits the budget of calls
CanCall == last.op # "get" /\ calls < MaxCalls

\* no YArrayIterator made yet
NoIter == [kind |-> "none", h |-> 0, pos |-> 0, end |-> 0, snap |-> <<>>,
           stale |-> FALSE, txn |-> TRUE, touched |-> FALSE, dang |-> FALSE]

\* what a mutating call that returned M means for the iterator: the slice
\* iterator of a preliminary handle keeps raw pointers into the Vec, which are
\* stale once the Vec was written to or dropped (the handle was integrated)
Disturbed(M) ==
    IF it.kind = "none" THEN it
    ELSE [it EXCEPT !.touched = TRUE,
                    !.stale = @ \/ (it.kind = "prelim"
                                      /\ (M.hs[it.h].st # "prelim"
                                            \/ M.hs[it.h].buf # handles[it.h].buf))]

\* the state after the call returned M; the codec variables are not involved
Returns(M, call) ==
    /\ CanCall
    /\ calls' = calls + 1
    /\ Len(M.tr) <= MaxBranches
    /\ \A b \in DOMAIN M.tr : Len(M.tr[b].items) <= MaxLen
    /\ \A h \in Handles : Len(M.hs[h].buf) <= MaxLen
    /\ handles' = M.hs
    /\ tree' = M.tr
    /\ last' = [call EXCEPT !.err = M.err, !.ops = M.ops, !.pre = Pre]
    /\ it' = Disturbed(M)
    /\ UNCHANGED <<cin, cpc, cany, cback>>

\* YArray::new(init)
New(h, init) ==
    /\ handles[h].st = "none"
    /\ \A x \in HostHandles : x < h => handles[x].st # "none"
    /\ Returns([Machine([x \in HostHandles |-> <<>>]) EXCEPT
                   !.hs[h] = [st |-> "prelim", kind |-> "array", buf |-> init,
                              ents |-> NoEnts, ref |-> 0]],
               [NoCall EXCEPT !.op = "new", !.h = h, !.items = init])

NewMap(h, ents) ==
    /\ handles[h].st = "none"
    /\ \A x \in HostHandles : x < h => handles[x].st # "none"
    /\ Returns([Machine([x \in HostHandles |-> <<>>]) EXCEPT
                   !.hs[h] = [st |-> "prelim", kind |-> "map", buf |-> <<>>,
                              ents |-> ents, ref |-> 0]],
               [NoCall EXCEPT !.op = "newmap", !.h = h])

MapSet(h, key, value, ord) ==
    /\ handles[h].st # "none" /\ handles[h].kind = "map"
    /\ IsPrelim(handles, h) => Acyclic(handles, h, <<value>>)
    /\ Returns(YMap_set(Machine(ord), h, key, value),
               [NoCall EXCEPT !.op = "set", !.h = h, !.key = key, !.items = <<value>>])

Insert(h, index, items, ord) ==
    /\ handles[h].st # "none" /\ handles[h].kind = "array"
    /\ IsPrelim(handles, h) => Acyclic(handles, h, items)
    /\ Returns(YArray_insert(Machine(ord), h, index, items),
               [NoCall EXCEPT !.op = "insert", !.h = h, !.index = index,
                              !.items = items])

Push(h, items, ord) ==
    /\ handles[h].st # "none" /\ handles[h].kind = "array"
    /\ IsPrelim(handles, h) => Acyclic(handles, h, items)
    /\ Returns(YArray_push(Machine(ord), h, items),
               [NoCall EXCEPT !.op = "push", !.h = h,
                              !.index = YArray_length(handles, tree, h),
                              !.items = items])

Delete(h, index, length) ==
    /\ handles[h].st # "none" /\ handles[h].kind = "array"
    /\ Returns(YArray_delete(Machine([x \in HostHandles |-> <<>>]), h, index, length),
               [NoCall EXCEPT !.op = "delete", !.h = h, !.index = index, !.n = length])

\* a read leaves the containers as they are: the calls that follow it are
\* explored from the state before it
Get(h, index) ==
    /\ last.op # "get"
    /\ handles[h].st # "none" /\ handles[h].kind = "array"
    /\ LET r == YArray_get(handles, tree, h, index)
       IN  /\ last' = [NoCall EXCEPT !.op = "get", !.h = h, !.index = index, !.ret = r,
                                     !.err = IF IsSome(r) THEN "ok" ELSE "IndexError"]
           /\ UNCHANGED <<handles, tree, calls, cin, cpc, cany, cback, it>>

\* the iteration orders that can matter: those of the preliminary maps
Orders == { o \in [HostHandles -> KeyOrders] :
              \A h \in HostHandles :
                  (handles[h].st = "prelim" /\ handles[h].kind = "map")
                      \/ o[h] = CHOOSE s \in KeyOrders : TRUE }

Init ==
    /\ handles = [h \in Handles |->
                    IF h = Root
                    THEN [st |-> "integrated", kind |-> "array", buf |-> <<>>,
                          ents |-> NoEnts, ref |-> RootBranch]
                    ELSE [st |-> "none", kind |-> "array", buf |-> <<>>,
                          ents |-> NoEnts, ref |-> 0]]
    /\ tree = << [kind |-> "array", items |-> <<>>, ents |-> NoEnts,
                  owner |-> <<"handle", Root>>] >>
    /\ last = [op |-> "init", h |-> 0, index |-> 0, n |-> 0, key |-> "x", items |-> <<>>,
               err |-> "ok", ops |-> <<>>, ret |-> None,
               pre |-> [hs |-> handles, tr |-> tree]]
    /\ calls = 0
    /\ cin = <<"none">>
    /\ cpc = "idle"
    /\ cany = None
    /\ cback = <<"none">>
    /\ it = NoIter

Next ==
    \/ /\ CanCall
       /\ \E h \in HostHandles, init \in Inits : New(h, init)
    \/ /\ CanCall
       /\ \E h \in HostHandles, ents \in MapInits : NewMap(h, ents)
    \/ /\ CanCall
       /\ \E h \in HostHandles, key \in Keys, value \in SetValues, ord \in Orders :
             MapSet(h, key, value, ord)
    \/ /\ CanCall
       /\ \E h \in Handles, items \in Batches, ord \in Orders :
             \E index \in 0..(YArray_length(handles, tree, h) + 1) :
                 Insert(h, index, items, ord)
    \/ /\ CanCall
       /\ \E h \in Handles, items \in Batches, ord \in Orders : Push(h, items, ord)
    \/ /\ CanCall
       /\ \E h \in Handles :
             \E index \in 0..(YArray_length(handles, tree, h) + 1),
                length \in (0..MaxLen) \cup {-1} : Delete(h, index, length)
    \/ /\ last.op # "get"
       /\ \E h \in Handles : \E index \in 0..YArray_length(handles, tree, h) : Get(h, index)

Spec == Init /\ [][Next]_vars

(***************************************************************************)
(* The codec specification: a host value is encoded, and what was encoded  *)
(* is decoded.                                                             *)
(***************************************************************************)
InitCodec ==
    /\ handles = [h \in Handles |->
                    [st |-> "none", kind |-> "array", buf |-> <<>>, ents |-> NoEnts,
                     ref |-> 0]]
    /\ tree = <<>>
    /\ last = [op |-> "init", h |-> 0, index |-> 0, n |-> 0, key |-> "x", items |-> <<>>,
               err |-> "ok", ops |-> <<>>, ret |-> None,
               pre |-> [hs |-> handles, tr |-> tree]]
    /\ calls = 0
    /\ cin \in HostValues
    /\ cpc = "in"
    /\ cany = None
    /\ cback = <<"none">>
    /\ it = NoIter

Encode ==
    /\ cpc = "in"
    /\ cany' = py_into_any(cin)
    /\ cpc' = "encoded"
    /\ UNCHANGED <<handles, tree, last, calls, cin, cback, it>>

Decode ==
    /\ cpc = "encoded"
    /\ IsSome(cany)
    /\ cback' = Any_into_py(Unwrap(cany))
    /\ cpc' = "decoded"
    /\ UNCHANGED <<handles, tree, last, calls, cin, cany, it>>

NextCodec == Encode \/ Decode

SpecCodec == InitCodec /\ [][NextCodec]_vars

(***************************************************************************)
(* Properties of the codec.                                                *)
(***************************************************************************)
IsComposite(v) == v[1] \in {"list", "dict"}

RECURSIVE Leaves(_)

\* the values that are not lists or maps, nested at any depth in v
Leaves(v) ==
    IF v[1] = "list" THEN UNION { Leaves(v[2][i]) : i \in DOMAIN v[2] }
    ELSE IF v[1] = "dict"
         THEN UNION { Leaves(v[2][k]) : k \in { x \in Keys : v[2][x] # Absent } }
    ELSE {v}

RECURSIVE AnyRepresentable(_)

\* the host values of the closed set of spec section 3: Null, Bool, Number,
\* Integer, String, Bytes, and lists and string-keyed maps of these
AnyRepresentable(v) ==
    \A l \in Leaves(v) : l[1] \in {"none", "bool", "float", "int", "str", "bytes"}

RECURSIVE Filled(_, _)

\* the Any has an element for every element of the host value, at every depth
Filled(v, a) ==
    IF v[1] = "list"
    THEN a[1] = "Array" /\ Len(a[2]) = Len(v[2])
         /\ \A i \in DOMAIN v[2] : Filled(v[2][i], a[2][i])
    ELSE IF v[1] = "dict"
         THEN a[1] = "Map"
              /\ \A k \in Keys : IF v[2][k] = Absent THEN a[2][k] = Absent
                                 ELSE a[2][k] # Absent /\ Filled(v[2][k], a[2][k])
    ELSE a[1] \notin {"Array", "Map"}

\* C7: round trip. For every Any-representable host value, encode succeeds and
\* decoding what was encoded gives back the value, variant for variant.
C7_RoundTrip ==
    AnyRepresentable(cin) =>
        /\ cpc = "encoded" => IsSome(cany)
        /\ cpc = "decoded" => cback = cin

RECURSIVE ReadFrom(_, _, _, _)

\* the elements get returns at index i, i + 1, ... up to the length
ReadFrom(hs, tr, h, i) ==
    IF i >= YArray_length(hs, tr, h) THEN <<>>
    ELSE <<Unwrap(YArray_get(hs, tr, h, i))>> \o ReadFrom(hs, tr, h, i + 1)

\* the sequence a container reads as, through get
Read(hs, tr, h) == ReadFrom(hs, tr, h, 0)

Before == Read(last.pre.hs, last.pre.tr, last.h)

After == Read(handles, tree, last.h)

IsPlain(v) == IsSome(py_into_any(v))

\* what get returns for an inserted item: a plain value as the codec carries it,
\* a container as an object of the branch its handle is integrated at
ReadBack(hs, v) ==
    IF IsPlain(v) THEN Any_into_py(Unwrap(py_into_any(v)))
    ELSE <<"treeref", hs[v[2]].ref>>

\* item k of the batch was a preliminary container still when its turn came:
\* no item before it is that container or holds it in its buffers
FreshContainer(items, k) ==
    /\ items[k][1] = "handle"
    /\ last.pre.hs[items[k][2]].st = "prelim"
    /\ \A i \in 1..(k - 1) :
          items[i][1] = "handle" => ~Reaches(last.pre.hs, items[i][2], items[k][2])

\* item k of the batch is in the tree now: plain, or a container whose replay
\* completed
Landed(items, k) ==
    \/ IsPlain(items[k])
    \/ FreshContainer(items, k) /\ IsIntegrated(handles, items[k][2])

\* the last call inserted a batch into an integrated sequence, at a valid index
IntegratedInsert ==
    /\ last.op \in {"insert", "push"}
    /\ IsIntegrated(last.pre.hs, last.h)
    /\ last.index <= Len(Before)

\* After is Before with the first n items of the batch at the index of the call
Spliced(n) ==
    /\ Len(After) = Len(Before) + n
    /\ \A k \in 1..n : After[last.index + k] = ReadBack(handles, last.items[k])
    /\ \A p \in 1..last.index : After[p] = Before[p]
    /\ \A p \in (last.index + 1)..Len(Before) : After[p + n] = Before[p]

\* the order of a batch, whatever the codec does to its values: after a
\* successful insert into an integrated sequence the images of the batch are at
\* index..index+n-1 in input order, the elements before index keep their
\* positions and those from index on are shifted by exactly n
BatchOrderOfImages ==
    (IntegratedInsert /\ last.err = "ok") => Spliced(Len(last.items))

\* C1: batch ordering. After a successful insert of a batch of plain values and
\* preliminary containers into an integrated sequence, get at index..index+n-1
\* reads back the input list in input order (a plain value as itself, a
\* container as an object of its branch), the elements before index keep their
\* positions and those from index on are shifted by exactly n.
C1_BatchOrdering ==
    (IntegratedInsert /\ last.err = "ok") =>
        /\ Spliced(Len(last.items))
        /\ \A k \in DOMAIN last.items :
              IsPlain(last.items[k]) => After[last.index + k] = last.items[k]

\* a batch that mixes plain values and containers went between two elements
C1_Witness ==
    /\ IntegratedInsert /\ last.err = "ok"
    /\ last.index >= 1 /\ last.index < Len(Before)
    /\ \E i, j \in DOMAIN last.items :
          i < j /\ IsPlain(last.items[i]) /\ ~IsPlain(last.items[j])
    /\ \E i, j \in DOMAIN last.items :
          i < j /\ ~IsPlain(last.items[i]) /\ IsPlain(last.items[j])

\* the branches made for handle h
Owned(tr, h) == { b \in DOMAIN tr : tr[b].owner = <<"handle", h>> }

\* the last call tried to put its items into the tree
TreeCall ==
    \/ IntegratedInsert
    \/ last.op = "set" /\ IsIntegrated(last.pre.hs, last.h)

\* item k of the call was a shared container that was not preliminary any more
\* when its turn came
Stale(items, k) == IsShared(items[k]) /\ ~FreshContainer(items, k)

\* C2: lifecycle. A handle that is integrated stays integrated, at the same tree
\* position, and no further tree position is made for it: a call that offers it
\* to the tree again (also as the second occurrence in one batch) fails with
\* "Cannot integrate this type".
C2_Lifecycle ==
    /\ \A h \in Handles :
          IsIntegrated(last.pre.hs, h) =>
              /\ IsIntegrated(handles, h)
              /\ handles[h].ref = last.pre.hs[h].ref
              /\ Owned(tree, h) = Owned(last.pre.tr, h)
    /\ (TreeCall /\ \E k \in DOMAIN last.items : Stale(last.items, k))
          => last.err = "CannotIntegrate"

\* a handle that an earlier call attached was offered to the tree again
C2_Witness ==
    /\ IntegratedInsert
    /\ last.err = "CannotIntegrate"
    /\ \E k \in DOMAIN last.items :
          /\ last.items[k][1] = "handle"
          /\ last.items[k][2] \in HostHandles
          /\ IsIntegrated(last.pre.hs, last.items[k][2])

\* the batch failed at item k, a shared container that was not preliminary
FailsAt(k) ==
    /\ IntegratedInsert
    /\ last.err = "CannotIntegrate"
    /\ \A i \in 1..(k - 1) : Landed(last.items, i)
    /\ Stale(last.items, k)

\* every branch made by the last call belongs to a handle integrated at it
NoPartialBranch ==
    \A b \in (Len(last.pre.tr) + 1)..Len(tree) :
        /\ tree[b].owner[1] = "handle"
        /\ IsIntegrated(handles, tree[b].owner[2])
        /\ handles[tree[b].owner[2]].ref = b

\* C3: when a batch inserted into a sequence fails at item k, an integrated
\* handle, the items before k are in the tree in input order, and nothing is
\* written for item k or a later item: no element, no branch, no replayed
\* content, and the containers after k keep their buffers.
C3_FailingElement ==
    \A k \in DOMAIN last.items :
        FailsAt(k) =>
            /\ Spliced(k - 1)
            /\ NoPartialBranch
            /\ \A i \in k..Len(last.items) :
                  (last.items[i][1] = "handle"
                       /\ \A j \in 1..(k - 1) :
                             last.items[j][1] = "handle" =>
                                 ~Reaches(last.pre.hs, last.items[j][2], last.items[i][2]))
                      => handles[last.items[i][2]] = last.pre.hs[last.items[i][2]]

\* a batch failed at its third item, after a plain value and a container
C3_Witness ==
    /\ FailsAt(3)
    /\ \E i \in 1..2 : IsPlain(last.items[i])
    /\ \E i \in 1..2 : ~IsPlain(last.items[i])

\* the value of a set call was a shared container that was not preliminary
StaleValue ==
    /\ last.op = "set"
    /\ IsIntegrated(last.pre.hs, last.h)
    /\ IsShared(last.items[1])
    /\ ~is_prelim(last.pre, last.items[1])
    /\ YMap_entries(last.pre.hs, last.pre.tr, last.h)[last.key] = Absent

\* C4: setting a new entry of an integrated map to an integrated handle fails
\* with "Cannot integrate this type" and leaves the entries of the map as they
\* were: no key is added and no value changes.
C4_MapEntry ==
    StaleValue =>
        /\ last.err = "CannotIntegrate"
        /\ YMap_entries(handles, tree, last.h)
              = YMap_entries(last.pre.hs, last.pre.tr, last.h)
        /\ tree = last.pre.tr
        /\ handles = last.pre.hs

\* the map had an entry when the call was refused
C4_Witness ==
    /\ StaleValue
    /\ last.err = "CannotIntegrate"
    /\ \E k \in Keys : YMap_entries(handles, tree, last.h)[k] # Absent

\* the tree ops the last call issued on branch b
OpsOn(b) == SelectSeq(last.ops, LAMBDA op : op[2] = b)

OpsOfKind(ops, kind) == { i \in DOMAIN ops : ops[i][1] = kind }

\* the positions of the batch where a maximal run of plain values starts
RunStarts(items) ==
    { i \in DOMAIN items : IsPlain(items[i]) /\ (i = 1 \/ ~IsPlain(items[i - 1])) }

RECURSIVE DeepRead(_, _)
RECURSIVE DeepReadItems(_, _, _)

DeepReadItems(tr, b, i) ==
    IF i > Len(tr[b].items) THEN <<>>
    ELSE <<DeepRead(tr, Value_into_py(tr[b].items[i]))>> \o DeepReadItems(tr, b, i + 1)

\* a host value with every sequence object in it read out as a list
DeepRead(tr, v) ==
    IF v[1] = "treeref" /\ tr[v[2]].kind = "array"
    THEN <<"list", DeepReadItems(tr, v[2], 1)>>
    ELSE v

ScenarioBatch ==
    << <<"str", "a">>, <<"int", 0, 1>>, <<"handle", 1>>, <<"str", "b">> >>

ScenarioRead ==
    <<"list", << <<"str", "a">>, <<"int", 0, 1>>,
                 <<"list", << <<"bool", TRUE>>, <<"bool", FALSE>> >>>>,
                 <<"str", "b">> >>>>

\* the scenario of spec section 8: ["a", 1, <preliminary [true, false]>, "b"]
\* inserted at index 0 into the empty root sequence
Scenario ==
    /\ IntegratedInsert
    /\ last.h = Root /\ last.index = 0 /\ Before = <<>>
    /\ last.items = ScenarioBatch
    /\ last.pre.hs[1].st = "prelim" /\ last.pre.hs[1].kind = "array"
    /\ last.pre.hs[1].buf = << <<"bool", TRUE>>, <<"bool", FALSE>> >>

\* a successful insert_at issues on its sequence one range-insert op per maximal
\* run of plain values and one container-attach op per container, and nothing
\* else
OpPerRunAndContainer ==
    (IntegratedInsert /\ last.err = "ok") =>
        LET ops == OpsOn(last.pre.hs[last.h].ref)
        IN  /\ Cardinality(OpsOfKind(ops, "range")) = Cardinality(RunStarts(last.items))
            /\ Cardinality(OpsOfKind(ops, "attach"))
                  = Cardinality({ i \in DOMAIN last.items : ~IsPlain(last.items[i]) })
            /\ Len(ops) = Cardinality(OpsOfKind(ops, "range"))
                            + Cardinality(OpsOfKind(ops, "attach"))

\* the scenario batch takes exactly 3 ops on the root sequence, and what is read
\* back has the shape of the batch: "a", 1, a list of two elements, "b"
ScenarioOpsAndShape ==
    Scenario =>
        LET read == DeepRead(tree, <<"treeref", RootBranch>>)
        IN  /\ last.err = "ok"
            /\ Len(OpsOn(RootBranch)) = 3
            /\ Len(read[2]) = 4
            /\ read[2][1] = <<"str", "a">> /\ read[2][2] = <<"int", 0, 1>>
            /\ read[2][3][1] = "list" /\ Len(read[2][3][2]) = 2
            /\ read[2][4] = <<"str", "b">>

\* C5: minimal ops. A successful insert_at issues on its sequence one
\* range-insert op per maximal run of plain values and one container-attach op
\* per container, and nothing else; the scenario batch takes exactly 3 ops on the
\* root sequence and reads back as ["a", 1, [true, false], "b"].
C5_MinimalOps ==
    /\ OpPerRunAndContainer
    /\ Scenario =>
          /\ last.err = "ok"
          /\ Len(OpsOn(RootBranch)) = 3
          /\ DeepRead(tree, <<"treeref", RootBranch>>) = ScenarioRead

\* the scenario batch has been inserted
C5_Witness == Scenario /\ last.err = "ok" /\ Len(After) = 4

\* item k of the batch is neither plain nor a preliminary container
Unacceptable(k) ==
    /\ ~IsPlain(last.items[k])
    /\ ~(last.items[k][1] = "handle" /\ last.pre.hs[last.items[k][2]].st = "prelim")

\* the element of the root of the call at position p is an Any, not a branch
StoredAsAny(p) == tree[last.pre.hs[last.h].ref].items[p][1] \notin {"YArray", "YMap"}

\* C6: classification. An item of a batch inserted into the tree is stored as
\* an Any exactly when encode succeeds; an item stored as a container was a
\* preliminary handle; a batch with any other item (an unrecognized host value,
\* a list or map that holds a handle, an integrated handle) fails with "Cannot
\* integrate this type", and what was inserted for the items before it stays.
C6_Classification ==
    IntegratedInsert =>
        /\ last.err = "ok" =>
              \A k \in DOMAIN last.items :
                  /\ IsPlain(last.items[k]) <=> StoredAsAny(last.index + k)
                  /\ ~IsPlain(last.items[k]) =>
                        (last.items[k][1] = "handle"
                             /\ last.pre.hs[last.items[k][2]].st = "prelim")
        /\ (\E k \in DOMAIN last.items : Unacceptable(k)) => last.err = "CannotIntegrate"
        /\ \A k \in DOMAIN last.items :
              (Unacceptable(k) /\ \A i \in 1..(k - 1) : Landed(last.items, i))
                  => Spliced(k - 1)

\* a batch failed at an unrecognized host value that followed a plain value
C6_Witness ==
    /\ IntegratedInsert
    /\ last.err = "CannotIntegrate"
    /\ Len(last.items) = 2
    /\ IsPlain(last.items[1])
    /\ last.items[2] = <<"other">>
    /\ Len(After) = Len(Before) + 1

\* the range of a delete call ends beyond the length of the container
DeleteOutOfRange == last.op = "delete" /\ (last.n < 0 \/ last.index + last.n > Len(Before))

Tens == << <<"int", 0, 10>>, <<"int", 0, 20>>, <<"int", 0, 30>>, <<"int", 0, 40>> >>

\* C10: delete in range. delete(index, length) with index + length within the
\* length removes the elements at index..index+length-1 and keeps the others in
\* their order, for a preliminary and for an integrated handle; deleting [1,3)
\* from [10, 20, 30, 40] leaves [10, 40].
C10_DeleteRange ==
    (last.op = "delete" /\ ~DeleteOutOfRange) =>
        /\ last.err = "ok"
        /\ Len(After) = Len(Before) - last.n
        /\ \A p \in 1..last.index : After[p] = Before[p]
        /\ \A p \in (last.index + 1)..Len(After) : After[p] = Before[p + last.n]
        /\ (Before = Tens /\ last.index = 1 /\ last.n = 2)
              => After = << <<"int", 0, 10>>, <<"int", 0, 40>> >>

\* [1,3) has been deleted from an integrated [10, 20, 30, 40]
C10_Witness ==
    /\ last.op = "delete" /\ last.err = "ok"
    /\ IsIntegrated(last.pre.hs, last.h)
    /\ Before = Tens /\ last.index = 1 /\ last.n = 2

(***************************************************************************)
(* YArrayIterator: values() and __next__. The iterator of a preliminary    *)
(* handle is a std::slice::Iter made from a raw pointer to the Vec, the    *)
(* iterator of an integrated handle an ArrayIter made from raw pointers to *)
(* the Array and to the Transaction; neither keeps its target alive.       *)
(* `snap` records what the container read as when values() was called.    *)
(***************************************************************************)
Range(s) == { s[i] : i \in DOMAIN s }

\* a variant of the slice iterator that steps over an element
SliceNext_skips(buf, pos, end) == IF pos + 1 < end THEN Some(buf[pos + 2]) ELSE None

\* std::slice::Iter::next().cloned() on a Vec that was not written to since
SliceNext(buf, pos, end) == IF pos < end THEN Some(buf[pos + 1]) ELSE None

\* ArrayIter::next().map(|v| v.into_py(py)): the engine walks the live sequence
ArrayIterNext(tr, b, pos) ==
    IF pos < Len(tr[b].items) THEN Some(Value_into_py(tr[b].items[pos + 1])) ELSE None

\* a read through a pointer to memory that was reallocated, drained or freed:
\* an object that never was an element, some former element, or a crash
DanglingRead ==
    { [ret |-> Some(<<"garbage">>), err |-> "ok", dang |-> TRUE],
      [ret |-> None, err |-> "Crash", dang |-> TRUE] }
        \cup { [ret |-> Some(x), err |-> "ok", dang |-> TRUE] : x \in Range(it.snap) }

\* YArrayIterator::__next__
NextOutcomes ==
    IF it.kind = "prelim"
    THEN IF it.pos >= it.end THEN { [ret |-> None, err |-> "ok", dang |-> FALSE] }
         ELSE IF ~it.stale
              THEN { [ret |-> SliceNext(handles[it.h].buf, it.pos, it.end),
                      err |-> "ok", dang |-> FALSE] }
         ELSE DanglingRead
    ELSE IF it.txn
         THEN { [ret |-> ArrayIterNext(tree, handles[it.h].ref, it.pos),
                 err |-> "ok", dang |-> FALSE] }
    ELSE DanglingRead \cup { [ret |-> None, err |-> "ok", dang |-> TRUE] }

\* YArray::values
Values(h) ==
    /\ handles[h].st # "none" /\ handles[h].kind = "array"
    /\ it' = [kind |-> IF IsIntegrated(handles, h) THEN "integrated" ELSE "prelim",
              h |-> h, pos |-> 0, end |-> Len(handles[h].buf),
              snap |-> Read(handles, tree, h),
              stale |-> FALSE, txn |-> TRUE, touched |-> FALSE, dang |-> FALSE]
    /\ last' = [NoCall EXCEPT !.op = "values", !.h = h]
    /\ UNCHANGED <<handles, tree, calls, cin, cpc, cany, cback>>

IterNext ==
    /\ it.kind # "none"
    /\ it.pos < MaxLen
    /\ \E out \in NextOutcomes :
          /\ last' = [NoCall EXCEPT !.op = "next", !.h = it.h, !.index = it.pos,
                                    !.ret = out.ret, !.err = out.err]
          /\ it' = [it EXCEPT !.pos = IF out.err = "ok" /\ IsSome(out.ret) THEN @ + 1 ELSE @,
                              !.dang = out.dang]
    /\ UNCHANGED <<handles, tree, calls, cin, cpc, cany, cback>>

\* the transaction the iterator was made under ends (it is committed and dropped)
EndTxn ==
    /\ it.kind # "none" /\ it.txn
    /\ it' = [it EXCEPT !.txn = FALSE, !.touched = TRUE]
    /\ last' = [NoCall EXCEPT !.op = "endtxn"]
    /\ UNCHANGED <<handles, tree, calls, cin, cpc, cany, cback>>

\* the calls made around an iteration
IterHandles == {Root, 1}

IterInits == { <<>>, << <<"str", "a">>, <<"int", 0, 1>> >> }

IterBatches ==
    { << <<"str", "b">> >>, << <<"str", "b">>, <<"int", 0, 2>> >> }
        \cup { <<x>> : x \in HandleItems }

NextIter ==
    \/ /\ CanCall
       /\ \E init \in IterInits : New(1, init)
    \/ /\ CanCall
       /\ \E h \in IterHandles, items \in IterBatches, ord \in Orders :
             \E index \in 0..YArray_length(handles, tree, h) : Insert(h, index, items, ord)
    \/ /\ CanCall
       /\ \E h \in IterHandles, items \in IterBatches, ord \in Orders : Push(h, items, ord)
    \/ /\ CanCall
       /\ \E h \in IterHandles :
             \E index \in 0..YArray_length(handles, tree, h) : Delete(h, index, 1)
    \/ \E h \in IterHandles : Values(h)
    \/ IterNext
    \/ EndTxn

SpecIter == Init /\ [][NextIter]_vars

C12_IteratorNeverCorrupt ==
    last.op = "next" =>
        /\ \/ last.err # "ok"
           \/ last.ret = None
           \/ IsSome(last.ret)
                 /\ Unwrap(last.ret) \in Range(it.snap) \cup Range(Read(handles, tree, it.h))
        /\ ~it.dang

(***************************************************************************)
(* Map entry changes: EntryChangeWrapper::into_py. An EntryChange is       *)
(* <<"Inserted", new>>, <<"Updated", old, new>> or <<"Removed", old>> over *)
(* engine values; the host record is a function of the keys it can hold,   *)
(* Absent where the key is not set.                                        *)
(***************************************************************************)
ChangeKeys == {"action", "oldValue", "newValue"}

NoChange == [k \in ChangeKeys |-> Absent]

\* a variant that crosses the two values of an update
EntryChange_into_py_crossed(c) ==
    IF c[1] = "Inserted"
    THEN [NoChange EXCEPT !["action"] = <<"str", "add">>,
                          !["newValue"] = Value_into_py(c[2])]
    ELSE IF c[1] = "Updated"
    THEN [NoChange EXCEPT !["action"] = <<"str", "update">>,
                          !["oldValue"] = Value_into_py(c[3]),
                          !["newValue"] = Value_into_py(c[2])]
    ELSE [NoChange EXCEPT !["action"] = <<"str", "delete">>,
                          !["oldValue"] = Value_into_py(c[2])]

\* impl IntoPy<PyObject> for EntryChangeWrapper
EntryChange_into_py(c) ==
    IF c[1] = "Inserted"
    THEN [NoChange EXCEPT !["action"] = <<"str", "add">>,
                          !["newValue"] = Value_into_py(c[2])]
    ELSE IF c[1] = "Updated"
    THEN [NoChange EXCEPT !["action"] = <<"str", "update">>,
                          !["oldValue"] = Value_into_py(c[2]),
                          !["newValue"] = Value_into_py(c[3])]
    ELSE [NoChange EXCEPT !["action"] = <<"str", "delete">>,
                          !["oldValue"] = Value_into_py(c[2])]

\* the engine values of the changes
ChangeValues ==
    { <<"BigInt", 0, 5>>, <<"BigInt", 0, 7>>, <<"Number", 0, 5, 0>>, <<"String", "a">>,
      <<"Null">>, <<"Bool", TRUE>>, <<"Array", << <<"BigInt", 0, 5>> >> >>,
      <<"YArray", RootBranch>> }

EntryChanges ==
    { <<"Inserted", new>> : new \in ChangeValues }
        \cup { <<"Updated", old, new>> : old \in ChangeValues, new \in ChangeValues }
        \cup { <<"Removed", old>> : old \in ChangeValues }

InitEvents ==
    /\ handles = [h \in Handles |->
                    [st |-> "none", kind |-> "array", buf |-> <<>>, ents |-> NoEnts,
                     ref |-> 0]]
    /\ tree = <<>>
    /\ last = [op |-> "init", h |-> 0, index |-> 0, n |-> 0, key |-> "x", items |-> <<>>,
               err |-> "ok", ops |-> <<>>, ret |-> None,
               pre |-> [hs |-> handles, tr |-> tree]]
    /\ calls = 0
    /\ cin \in EntryChanges
    /\ cpc = "change"
    /\ cany = None
    /\ cback = <<"none">>
    /\ it = NoIter

Translate ==
    /\ cpc = "change"
    /\ cback' = EntryChange_into_py(cin)
    /\ cpc' = "translated"
    /\ UNCHANGED <<handles, tree, last, calls, cin, cany, it>>

NextEvents == Translate

SpecEvents == InitEvents /\ [][NextEvents]_vars

\* C13: map entry changes. Inserted(new) gives action "add" with newValue and
\* no oldValue; Updated(old, new) gives action "update" with oldValue and
\* newValue; Removed(old) gives action "delete" with oldValue and no newValue;
\* Updated(5, 7) gives {action: "update", oldValue: 5, newValue: 7}.
C13_EntryChange ==
    cpc = "translated" =>
        /\ cin[1] = "Inserted" =>
              /\ cback["action"] = <<"str", "add">>
              /\ cback["newValue"] = Value_into_py(cin[2])
              /\ cback["oldValue"] = Absent
        /\ cin[1] = "Updated" =>
              /\ cback["action"] = <<"str", "update">>
              /\ cback["oldValue"] = Value_into_py(cin[2])
              /\ cback["newValue"] = Value_into_py(cin[3])
        /\ cin[1] = "Removed" =>
              /\ cback["action"] = <<"str", "delete">>
              /\ cback["oldValue"] = Value_into_py(cin[2])
              /\ cback["newValue"] = Absent
        /\ cin = <<"Updated", <<"BigInt", 0, 5>>, <<"BigInt", 0, 7>> >> =>
              cback = [action |-> <<"str", "update">>, oldValue |-> <<"int", 0, 5>>,
                       newValue |-> <<"int", 0, 7>>]

\* Updated(5, 7) has been translated
C13_Witness ==
    /\ cpc = "translated"
    /\ cin = <<"Updated", <<"BigInt", 0, 5>>, <<"BigInt", 0, 7>> >>
    /\ cback["action"] = <<"str", "update">>

(***************************************************************************)
(* Classification on its own: py_into_any called on a host value between   *)
(* the calls that change the containers.                                   *)
(***************************************************************************)
\* the values classified: plain ones, and a handle and a list that holds one
ClassifyValues ==
    { <<"str", "a">>, <<"int", 0, 1>>, <<"bool", TRUE>>, <<"none">>,
      <<"list", << <<"str", "a">>, <<"int", 0, 1>> >> >>,
      <<"handle", 1>>, <<"list", << <<"handle", 1>> >> >> }

\* a variant that takes the buffer of a preliminary handle it meets
Classify_takes(v) ==
    /\ last' = [NoCall EXCEPT !.op = "classify", !.items = <<v>>,
                              !.ret = py_into_any(v),
                              !.key = IF last.op = "classify" /\ last.items = <<v>>
                                      THEN IF last.ret = py_into_any(v) THEN "x" ELSE "y"
                                      ELSE "x"]
    /\ handles' = [h \in Handles |->
                      IF handles[h].st = "prelim" THEN [handles[h] EXCEPT !.buf = <<>>]
                      ELSE handles[h]]
    /\ UNCHANGED <<tree, calls, cin, cpc, cany, cback, it>>

\* py_into_any(v): the result is kept in last.ret, and last.key is "y" when the
\* call before classified the same value with another result
Classify(v) ==
    /\ last' = [NoCall EXCEPT !.op = "classify", !.items = <<v>>,
                              !.ret = py_into_any(v),
                              !.key = IF last.op = "classify" /\ last.items = <<v>>
                                      THEN IF last.ret = py_into_any(v) THEN "x" ELSE "y"
                                      ELSE "x"]
    /\ UNCHANGED <<handles, tree, calls, cin, cpc, cany, cback, it>>

NextClassify ==
    \/ /\ CanCall
       /\ \E init \in IterInits : New(1, init)
    \/ /\ CanCall
       /\ \E h \in IterHandles, items \in IterBatches, ord \in Orders :
             \E index \in 0..YArray_length(handles, tree, h) : Insert(h, index, items, ord)
    \/ /\ CanCall
       /\ \E h \in IterHandles, items \in IterBatches, ord \in Orders : Push(h, items, ord)
    \/ \E v \in ClassifyValues : Classify(v)

SpecClassify == Init /\ [][NextClassify]_vars

C15_OnePosition ==
    \A h \in HostHandles :
        /\ Cardinality(Owned(tree, h)) <= 1
        /\ Owned(tree, h) # {} => IsIntegrated(handles, h)

\* the sequence handles the last call attached: Preliminary before it,
\* Integrated after it
Attached ==
    { h \in HostHandles : /\ last.pre.hs[h].st = "prelim"
                          /\ last.pre.hs[h].kind = "array"
                          /\ IsIntegrated(handles, h) }

\* the replay of a buffer, whatever the codec does to its values: an attached
\* handle reads as long as its buffer was, and get(i) reads the image of the
\* i-th element of the buffer
ReplayOfImages ==
    \A h \in Attached :
        LET B == last.pre.hs[h].buf
        IN  /\ YArray_length(handles, tree, h) = Len(B)
            /\ \A i \in DOMAIN B :
                  YArray_get(handles, tree, h, i - 1) = Some(ReadBack(handles, B[i]))

\* C16: after a successful attach of a Preliminary sequence handle with buffer
\* B the handle is Integrated, its length is the number of elements of B, and
\* get(i) returns the i-th element of B for every i (a plain element as itself,
\* a container as an object of its branch).
C16_ReplayInOrder ==
    \A h \in Attached :
        LET B == last.pre.hs[h].buf
        IN  /\ YArray_length(handles, tree, h) = Len(B)
            /\ \A i \in DOMAIN B :
                  /\ YArray_get(handles, tree, h, i - 1) = Some(ReadBack(handles, B[i]))
                  /\ IsPlain(B[i]) => YArray_get(handles, tree, h, i - 1) = Some(B[i])

\* the handles, sequences and maps, the last call attached
AttachedAny ==
    { h \in HostHandles : last.pre.hs[h].st = "prelim" /\ IsIntegrated(handles, h) }

\* branch b is held by an element or an entry of branch p
ChildOf(p, b) ==
    \/ \E i \in DOMAIN tree[p].items :
          tree[p].items[i] \in { <<"YArray", b>>, <<"YMap", b>> }
    \/ \E k \in Keys : tree[p].ents[k] \in { <<"YArray", b>>, <<"YMap", b>> }

\* C17: integration is recursive. After a successful attach of a Preliminary
\* handle h, every Preliminary handle held in h's sequence buffer or map
\* entries, at any depth, is Integrated, each at a branch under the branch of
\* the handle that held it.
C17_RecursiveIntegration ==
    \A h \in AttachedAny :
        /\ \A c \in HostHandles : Reaches(last.pre.hs, h, c) => IsIntegrated(handles, c)
        /\ \A c \in PrelimRefs(last.pre.hs, h) : ChildOf(handles[h].ref, handles[c].ref)

\* a sequence that held a preliminary sequence with elements was attached
C17_Witness ==
    /\ last.err = "ok"
    /\ \E h \in AttachedAny : \E c \in PrelimRefs(last.pre.hs, h) :
          /\ last.pre.hs[c].buf # <<>>
          /\ last.items = << <<"handle", h>> >>
          /\ IsIntegrated(handles, c)

(***************************************************************************)
(* Handles read from the tree. The document starts with a sequence nested  *)
(* in its root (written by an earlier session or a remote peer), so that   *)
(* get on the root returns a container.                                    *)
(***************************************************************************)
NestedBranch == 2

InitNested ==
    /\ handles = [h \in Handles |->
                    IF h = Root
                    THEN [st |-> "integrated", kind |-> "array", buf |-> <<>>,
                          ents |-> NoEnts, ref |-> RootBranch]
                    ELSE [st |-> "none", kind |-> "array", buf |-> <<>>,
                          ents |-> NoEnts, ref |-> 0]]
    /\ tree = << [kind |-> "array", items |-> << <<"YArray", NestedBranch>> >>,
                  ents |-> NoEnts, owner |-> <<"handle", Root>>],
                 [kind |-> "array", items |-> << <<"String", "a">> >>,
                  ents |-> NoEnts, owner |-> <<"treeref", NestedBranch>>] >>
    /\ last = [op |-> "init", h |-> 0, index |-> 0, n |-> 0, key |-> "x", items |-> <<>>,
               err |-> "ok", ops |-> <<>>, ret |-> None,
               pre |-> [hs |-> handles, tr |-> tree]]
    /\ calls = 0
    /\ cin = <<"none">>
    /\ cpc = "idle"
    /\ cany = None
    /\ cback = <<"none">>
    /\ it = NoIter

\* batches with a container that a get returned
ReadBatches ==
    IterBatches \cup { <<r>> : r \in ReadItems }
        \cup { << <<"str", "b">>, r >> : r \in ReadItems }

NextRead ==
    \/ /\ CanCall
       /\ \E init \in IterInits : New(1, init)
    \/ /\ CanCall
       /\ \E h \in IterHandles, items \in ReadBatches, ord \in Orders :
             \E index \in 0..YArray_length(handles, tree, h) : Insert(h, index, items, ord)
    \/ /\ CanCall
       /\ \E h \in IterHandles, items \in ReadBatches, ord \in Orders : Push(h, items, ord)
    \/ /\ last.op # "get"
       /\ \E h \in IterHandles : \E index \in 0..YArray_length(handles, tree, h) : Get(h, index)

SpecRead == InitNested /\ [][NextRead]_vars

\* the last call was given a container that a read of the tree returned
GivenReadHandle ==
    /\ last.op \in {"insert", "push"}
    /\ \E k \in DOMAIN last.items : last.items[k][1] = "treeref"

\* a container read from the tree is refused by an Integrated sequence
ReadHandleRefusedByTree ==
    (GivenReadHandle /\ IsIntegrated(last.pre.hs, last.h)) => last.err = "CannotIntegrate"

\* C18: a handle the host constructs starts Preliminary; a container that get
\* returns for a tree position is Integrated (it is not preliminary); inserting
\* such a container into any container, Preliminary or Integrated, fails with
\* "Cannot integrate this type".
C18_ReadHandles ==
    /\ last.op = "new" => IsPrelim(handles, last.h)
    /\ (last.op = "get" /\ IsSome(last.ret) /\ IsShared(Unwrap(last.ret))) =>
          ~is_prelim(Pre, Unwrap(last.ret))
    /\ GivenReadHandle => last.err = "CannotIntegrate"

(***************************************************************************)
(* A Preliminary and an Integrated sequence side by side. Handle 1 was     *)
(* constructed empty and is Preliminary; handle 2 was constructed empty    *)
(* and pushed to the root, so it is Integrated at an empty branch. Every   *)
(* call is made on both, and at the end handle 1 is pushed to the root.    *)
(***************************************************************************)
MaxPairOps == 3

PairBranch == 2

InitPair ==
    /\ handles = [h \in Handles |->
                    IF h = Root
                    THEN [st |-> "integrated", kind |-> "array", buf |-> <<>>,
                          ents |-> NoEnts, ref |-> RootBranch]
                    ELSE IF h = 1
                    THEN [st |-> "prelim", kind |-> "array", buf |-> <<>>,
                          ents |-> NoEnts, ref |-> 0]
                    ELSE [st |-> "integrated", kind |-> "array", buf |-> <<>>,
                          ents |-> NoEnts, ref |-> PairBranch]]
    /\ tree = << [kind |-> "array", items |-> << <<"YArray", PairBranch>> >>,
                  ents |-> NoEnts, owner |-> <<"handle", Root>>],
                 [kind |-> "array", items |-> <<>>,
                  ents |-> NoEnts, owner |-> <<"handle", 2>>] >>
    /\ last = [op |-> "init", h |-> 0, index |-> 0, n |-> 0, key |-> "x", items |-> <<>>,
               err |-> "ok", ops |-> <<>>, ret |-> None,
               pre |-> [hs |-> handles, tr |-> tree]]
    /\ calls = 0
    /\ cin = <<"none">>
    /\ cpc = "idle"
    /\ cany = None
    /\ cback = <<"none">>
    /\ it = NoIter

\* batches of plain values
PairBatches ==
    { << <<"str", "a">> >>, << <<"int", 0, 1>> >>, << <<"bool", TRUE>> >>,
      << <<"int", 1, 1>> >>, << <<"str", "a">>, <<"int", 0, 1>> >>,
      << <<"str", "b">>, <<"str", "c">>, <<"str", "d">> >> }

\* the state after the same call was made on handle 1 and on handle 2
BothReturn(M, call) ==
    /\ IsPrelim(handles, 1)
    /\ calls < MaxPairOps
    /\ calls' = calls + 1
    /\ Len(M.hs[1].buf) <= MaxLen
    /\ handles' = M.hs
    /\ tree' = M.tr
    /\ last' = [call EXCEPT !.err = M.err, !.ops = M.ops, !.pre = Pre]
    /\ UNCHANGED <<cin, cpc, cany, cback, it>>

PairInsert(index, items) ==
    BothReturn(YArray_insert(YArray_insert(Machine([x \in HostHandles |-> <<>>]),
                                           1, index, items),
                             2, index, items),
               [NoCall EXCEPT !.op = "insert", !.index = index, !.items = items])

PairPush(items) ==
    BothReturn(YArray_push(YArray_push(Machine([x \in HostHandles |-> <<>>]), 1, items),
                           2, items),
               [NoCall EXCEPT !.op = "push", !.items = items])

PairDelete(index, length) ==
    BothReturn(YArray_delete(YArray_delete(Machine([x \in HostHandles |-> <<>>]),
                                           1, index, length),
                             2, index, length),
               [NoCall EXCEPT !.op = "delete", !.index = index, !.n = length])

\* root.push(txn, [handle 1])
PairAttach ==
    /\ IsPrelim(handles, 1)
    /\ LET M == YArray_push(Machine([x \in HostHandles |-> <<>>]), Root,
                            << <<"handle", 1>> >>)
       IN  /\ handles' = M.hs
           /\ tree' = M.tr
           /\ last' = [NoCall EXCEPT !.op = "attach", !.h = 1, !.err = M.err,
                                     !.ops = M.ops, !.pre = Pre]
    /\ UNCHANGED <<calls, cin, cpc, cany, cback, it>>

NextPair ==
    \/ \E items \in PairBatches :
          \E index \in 0..YArray_length(handles, tree, 1) : PairInsert(index, items)
    \/ \E items \in PairBatches : PairPush(items)
    \/ \E index \in 0..YArray_length(handles, tree, 1) :
          \E length \in 0..(YArray_length(handles, tree, 1) - index) :
              PairDelete(index, length)
    \/ PairAttach

SpecPair == InitPair /\ [][NextPair]_vars

\* C19: a Preliminary and an Integrated sequence are observationally
\* equivalent. After the same insert, push and delete calls, with indices in
\* range and plain values, the two have the same length, and once the
\* Preliminary one is attached get reads the same elements from both.
C19_Equivalence ==
    /\ last.err = "ok"
    /\ YArray_length(handles, tree, 1) = YArray_length(handles, tree, 2)
    /\ last.op = "attach" =>
          /\ IsIntegrated(handles, 1)
          /\ Read(handles, tree, 1) = Read(handles, tree, 2)

\* three calls were made on both and handle 1 was attached with three elements
C19_Witness ==
    /\ last.op = "attach" /\ last.err = "ok"
    /\ calls = 3
    /\ Len(Read(handles, tree, 1)) = 3
    /\ Read(handles, tree, 1)[2] = <<"int", 0, 1>>

(***************************************************************************)
(* push.                                                                   *)
(***************************************************************************)
\* the last call was a push that returned normally
Pushed == last.op = "push" /\ last.err = "ok"

\* a call on a Preliminary handle writes to its buffer only: no tree op is
\* issued and the tree and the other handles stay as they were
BufferOnly ==
    (last.op \in {"insert", "push"} /\ IsPrelim(last.pre.hs, last.h)) =>
        /\ last.ops = <<>>
        /\ tree = last.pre.tr
        /\ \A h \in Handles \ {last.h} : handles[h] = last.pre.hs[h]
        /\ IsPrelim(handles, last.h)

\* push appends, whatever the codec does to the values: the length grows by
\* the number of items, the elements that were present keep their index, and
\* the last elements are the items in input order (on an Integrated handle the
\* images of the items)
PushAppendsImages ==
    Pushed =>
        /\ Len(After) = Len(Before) + Len(last.items)
        /\ \A p \in DOMAIN Before : After[p] = Before[p]
        /\ \A k \in DOMAIN last.items :
              After[Len(Before) + k] =
                  IF IsPrelim(last.pre.hs, last.h) THEN last.items[k]
                  ELSE ReadBack(handles, last.items[k])

\* C20: push appends. For a Preliminary and for an Integrated handle, after
\* push the length has grown by the number of items, the last elements are the
\* items in input order (a plain item as itself) and every element that was
\* present keeps its index; insert and push on a Preliminary handle change the
\* buffer only and issue no tree op.
C20_PushAppends ==
    /\ PushAppendsImages
    /\ Pushed => \A k \in DOMAIN last.items :
                    IsPlain(last.items[k]) => After[Len(Before) + k] = last.items[k]
    /\ BufferOnly

(***************************************************************************)
(* Integers through the codec.                                             *)
(***************************************************************************)
\* a host int proper: PyLong_Check holds and PyBool_Check does not
IsHostInt(v) == v[1] = "int"

\* the integer is one an f64 holds exactly: of magnitude below 2^53, or even
\* between 2^53 and 2^54
ExactInF64(v) == v[2] = 0 \/ v[3] % 2 = 0

\* an integer that an f64 holds exactly is encoded as the BigInt of itself and
\* decodes to itself
ExactIntegersPreserved ==
    (IsHostInt(cin) /\ ExactInF64(cin)) =>
        /\ cpc # "in" => cany = Some(<<"BigInt", cin[2], cin[3]>>)
        /\ cpc = "decoded" => cback = cin

\* C21: integers are preserved in range. For every host integer n of the
\* signed 64-bit range, those of magnitude above 2^53 included, encode(n) is
\* Integer(n) and decode(encode(n)) is n.
C21_IntegersPreserved ==
    IsHostInt(cin) =>
        /\ cpc # "in" => cany = Some(<<"BigInt", cin[2], cin[3]>>)
        /\ cpc = "decoded" => cback = cin

====
